---- MODULE Spec2Model ----
(***************************************************************************)
(* Temperature_Monitoring_System.ino: one polling loop that reads a DHT    *)
(* sensor, prints two temperatures and a trend glyph on a 16x2 LCD and     *)
(* writes a PWM level mapped from the Celsius temperature.                 *)
(*                                                                         *)
(* Sensor values are carried in tenths of a degree (the DHT22 resolution); *)
(* int(x) truncates toward zero as the C++ conversion does.                *)
(***************************************************************************)
EXTENDS Integers, Sequences, FiniteSets, TLC

VARIABLES display_count, previousTemp, tempEqualCount, lcd, ledPwm,
          last, steadyRun, trace, failures

vars == <<display_count, previousTemp, tempEqualCount, lcd, ledPwm,
          last, steadyRun, trace, failures>>

----------------------------------------------------------------------------
(* Bounds of the model *)

\* steady cycles counted by the history counter steadyRun before it stops
MaxRun == 1010
\* successful cycles recorded in SpecTrace
MaxTrace == 5
\* length of the one-degree-per-cycle sweep recorded in SpecMap
MaxMapCycles == 3
\* extra degrees on each side of the mapping domain fed to SpecMap
MapMargin == 3

\* failed cycles counted in SpecBlink
MaxFails == 5
\* successful cycles recorded in SpecBlink
MaxBlinkOk == 3

----------------------------------------------------------------------------
(* Program constants *)

LcdCols == 16
LcdRows == 2
MapInMin == -40
MapInMax == 80
MapOutMin == 0
MapOutMax == 255
TrendCol == 14
FahrenheitCol == 6
LoopDelay == 100
FailDelay == 200

\* custom characters created in setup()
DegreeGlyph == "DEG"
UpGlyph == "UP"
DownGlyph == "DOWN"

----------------------------------------------------------------------------
(* Arithmetic of the C++ code *)

\* C++ integer division truncates toward zero (b > 0)
TruncDiv(a, b) == IF a >= 0 THEN a \div b ELSE -((-a) \div b)

\* int(float) on a value given in tenths
IntOfTenths(t10) == TruncDiv(t10, 10)

\* dht.readTemperature(true): c * 1.8 + 32, here in hundredths
FahrenheitHundredths(t10) == t10 * 18 + 3200

IntOfHundredths(h) == TruncDiv(h, 100)

\* variant of map that rounds to nearest instead of truncating
map_rounded(x, in_min, in_max, out_min, out_max) ==
    TruncDiv((x - in_min) * (out_max - out_min) + TruncDiv(in_max - in_min, 2),
             in_max - in_min) + out_min

\* Arduino map(x, in_min, in_max, out_min, out_max)
map(x, in_min, in_max, out_min, out_max) ==
    TruncDiv((x - in_min) * (out_max - out_min), in_max - in_min) + out_min

----------------------------------------------------------------------------
(* LCD *)

Cells == (0 .. LcdCols - 1) \X (0 .. LcdRows - 1)

\* lcd.clear(), also the state after lcd.begin(16, 2)
lcdClear == [p \in Cells |-> " "]

\* lcd.setCursor(col, row) followed by printing the characters of s
lcdPrint(d, col, row, s) ==
    [p \in Cells |->
        IF p[2] = row /\ p[1] >= col /\ p[1] < col + Len(s)
        THEN s[p[1] - col + 1] ELSE d[p]]

DigitChar(n) == <<"0", "1", "2", "3", "4", "5", "6", "7", "8", "9">>[n + 1]

RECURSIVE Digits(_)
Digits(n) == IF n < 10 THEN <<DigitChar(n)>>
             ELSE Digits(n \div 10) \o <<DigitChar(n % 10)>>

\* lcd.print(int)
PrintInt(n) == IF n < 0 THEN <<"-">> \o Digits(-n) ELSE Digits(n)

FailedLine0 == <<"F","a","i","l","e","d"," ","t","o"," ","r","e","a","d">>
FailedLine1 == <<"f","r","o","m"," ","D","H","T"," ","s","e","n","s","o","r","!">>
TemperatureLabel == <<"T","e","m","p","e","r","a","t","u","r","e"," ">>

\* characters displayFormattedTemperature(temp, unit) sends to the LCD
displayFormattedTemperature(temp, unit) ==
    LET pad == IF temp < 0 /\ temp > -10 THEN <<" ">>
               ELSE IF temp >= 0 /\ temp < 10 THEN <<" ", " ">>
               ELSE IF temp > 9 /\ temp < 100 THEN <<" ">>
               ELSE << >>
    IN pad \o PrintInt(temp) \o <<DegreeGlyph>> \o <<unit>>

----------------------------------------------------------------------------
(* Sensor *)

\* a float returned by the DHT driver: NaN, or a value
Nan == [nan |-> TRUE, v |-> 0]
Val(x) == [nan |-> FALSE, v |-> x]
isnan(x) == x.nan

\* Celsius readings (tenths of a degree) the sensor delivers in Spec and
\* SpecTrace: int() gives -2, -1, 0 (truncated from -0.5), 20, 21 and 22;
\* a humidity that was read is 55.0 %
TempsTenths == {-25, -15, -5, 204, 215, 225}

Reading(t10) == [humidity |-> Val(550), tempC |-> Val(t10),
                 tempF |-> Val(FahrenheitHundredths(t10))]

OkOutcomes == {Reading(t10) : t10 \in TempsTenths}

\* every combination of the three reads in which at least one is NaN
FailedOutcomesOf(T) ==
    {r \in [humidity : {Nan, Val(550)},
            tempC : {Nan} \cup {Val(t10) : t10 \in T},
            tempF : {Nan} \cup {Val(FahrenheitHundredths(t10)) : t10 \in T}] :
        /\ isnan(r.humidity) \/ isnan(r.tempC) \/ isnan(r.tempF)
        /\ ~isnan(r.tempC) /\ ~isnan(r.tempF)
              => r.tempF.v = FahrenheitHundredths(r.tempC.v)}

\* the value of a read that did succeed plays no part in the error branch
FailedOutcomes == FailedOutcomesOf({204})

\* readings of SpecLive: 20.4 and 21.5 degrees
LiveOutcomes == {Reading(t10) : t10 \in {204, 215}}

\* readings of SpecMap: whole degrees around the mapping domain
WideTenths == {10 * t : t \in (MapInMin - MapMargin) .. (MapInMax + MapMargin)}
WideOutcomes == {Reading(t10) : t10 \in WideTenths}

----------------------------------------------------------------------------
(* handleTemperatureTrend *)

\* variant: the wrap test written >= 500
wrapCount_at500(c) == IF c >= 500 THEN 0 ELSE c

\* variant: the wrap test written > 501
wrapCount_late(c) == IF c > 501 THEN 0 ELSE c

\* if (tempEqualCount > 500) tempEqualCount = 0;
wrapCount(c) == IF c > 500 THEN 0 ELSE c

\* variant: the blink-on window with inclusive bounds
steadyDirective_inclusive(c) ==
    IF c >= 100 /\ c <= 150 THEN "SteadyBlinkOn"
    ELSE IF c > 200 THEN "SteadyBlinkOff"
    ELSE "NoChange"

\* variant: the bounds of the blink-on window exchanged
steadyDirective_emptyWindow(c) ==
    IF c > 150 /\ c < 100 THEN "SteadyBlinkOn"
    ELSE IF c > 200 THEN "SteadyBlinkOff"
    ELSE "NoChange"

\* the branch of the steady case taken for the (wrapped) count c
steadyDirective(c) ==
    IF c > 100 /\ c < 150 THEN "SteadyBlinkOn"
    ELSE IF c > 200 THEN "SteadyBlinkOff"
    ELSE "NoChange"

\* variant: the two comparisons exchanged
trendDirective_reversed(currentTemp, prev, count) ==
    IF currentTemp > prev THEN "Down"
    ELSE IF currentTemp < prev THEN "Up"
    ELSE steadyDirective(wrapCount(count))

\* the branch handleTemperatureTrend takes
trendDirective(currentTemp, prev, count) ==
    IF currentTemp < prev THEN "Down"
    ELSE IF currentTemp > prev THEN "Up"
    ELSE steadyDirective(wrapCount(count))

\* variant: the up branch draws the arrow without blanking row 1
trendWrites_upKeepsRow1(d, directive) ==
    CASE directive = "Down" ->
            lcdPrint(lcdPrint(d, TrendCol, 0, <<" ">>), TrendCol, 1, <<DownGlyph>>)
      [] directive = "Up" ->
            lcdPrint(d, TrendCol, 0, <<UpGlyph>>)
      [] directive = "SteadyBlinkOn" ->
            lcdPrint(lcdPrint(d, TrendCol, 1, <<" ">>), TrendCol, 0, <<"=">>)
      [] directive = "SteadyBlinkOff" ->
            lcdPrint(lcdPrint(d, TrendCol, 1, <<" ">>), TrendCol, 0, <<" ">>)
      [] OTHER -> d

\* the LCD writes of each branch
trendWrites(d, directive) ==
    CASE directive = "Down" ->
            lcdPrint(lcdPrint(d, TrendCol, 0, <<" ">>), TrendCol, 1, <<DownGlyph>>)
      [] directive = "Up" ->
            lcdPrint(lcdPrint(d, TrendCol, 1, <<" ">>), TrendCol, 0, <<UpGlyph>>)
      [] directive = "SteadyBlinkOn" ->
            lcdPrint(lcdPrint(d, TrendCol, 1, <<" ">>), TrendCol, 0, <<"=">>)
      [] directive = "SteadyBlinkOff" ->
            lcdPrint(lcdPrint(d, TrendCol, 1, <<" ">>), TrendCol, 0, <<" ">>)
      [] OTHER -> d

\* variant: the down branch forgets tempEqualCount = 0
trendCount_noResetOnDown(currentTemp, prev, count) ==
    IF currentTemp > prev THEN 0
    ELSE IF currentTemp < prev THEN count
    ELSE wrapCount(count) + 1

\* variant: the up branch forgets tempEqualCount = 0
trendCount_noResetOnUp(currentTemp, prev, count) ==
    IF currentTemp < prev THEN 0
    ELSE IF currentTemp > prev THEN count
    ELSE wrapCount(count) + 1

\* variant: the wrap applied to the incremented value
trendCount_wrapAfter(currentTemp, prev, count) ==
    IF currentTemp # prev THEN 0
    ELSE IF count + 1 > 500 THEN 0 ELSE count + 1

\* variant: the increment placed in the final else of the glyph branches
trendCount_incrementInElse(currentTemp, prev, count) ==
    IF currentTemp # prev THEN 0
    ELSE IF steadyDirective(wrapCount(count)) = "NoChange"
         THEN wrapCount(count) + 1 ELSE wrapCount(count)

\* tempEqualCount after the call
trendCount(currentTemp, prev, count) ==
    IF currentTemp # prev THEN 0 ELSE wrapCount(count) + 1

\* variant: the up branch forgets previousTemp = currentTemp
trendPrevious_staleOnUp(currentTemp, prev) ==
    IF currentTemp < prev THEN currentTemp ELSE prev

\* variant: the down branch forgets previousTemp = currentTemp
trendPrevious_staleOnDown(currentTemp, prev) ==
    IF currentTemp > prev THEN currentTemp ELSE prev

\* previousTemp after the call
trendPrevious(currentTemp, prev) ==
    IF currentTemp < prev THEN currentTemp
    ELSE IF currentTemp > prev THEN currentTemp
    ELSE prev

handleTemperatureTrend(currentTemp, prev, count, d) ==
    LET directive == trendDirective(currentTemp, prev, count)
    IN [previousTemp |-> trendPrevious(currentTemp, prev),
        tempEqualCount |-> trendCount(currentTemp, prev, count),
        lcd |-> trendWrites(d, directive),
        directive |-> directive]

----------------------------------------------------------------------------
(* loop *)

SensorFailed(r) == isnan(r.humidity) \/ isnan(r.tempC) \/ isnan(r.tempF)

\* variant: the error branch also clears the steady counter
loopFailed_resetsCount ==
    /\ lcd' = IF display_count THEN lcdClear
              ELSE lcdPrint(lcdPrint(lcd, 0, 0, FailedLine0), 0, 1, FailedLine1)
    /\ display_count' = ~display_count
    /\ tempEqualCount' = 0
    /\ UNCHANGED <<previousTemp, ledPwm>>
    /\ last' = [kind |-> "fail", temp |-> 0, directive |-> "None",
                prevBefore |-> previousTemp, countBefore |-> tempEqualCount,
                calls |-> <<"delay", IF display_count THEN "clear" ELSE "message",
                            "delay">>,
                delay |-> LoopDelay + FailDelay, pwm |-> 0]

\* variant: the error branch returns without its own delay
loopFailed_noExtraDelay ==
    /\ lcd' = IF display_count THEN lcdClear
              ELSE lcdPrint(lcdPrint(lcd, 0, 0, FailedLine0), 0, 1, FailedLine1)
    /\ display_count' = ~display_count
    /\ UNCHANGED <<previousTemp, tempEqualCount, ledPwm>>
    /\ last' = [kind |-> "fail", temp |-> 0, directive |-> "None",
                prevBefore |-> previousTemp, countBefore |-> tempEqualCount,
                calls |-> <<"delay", IF display_count THEN "clear" ELSE "message">>,
                delay |-> LoopDelay, pwm |-> 0]

\* the error branch of loop(): blink the message, then return
loopFailed ==
    /\ lcd' = IF display_count THEN lcdClear
              ELSE lcdPrint(lcdPrint(lcd, 0, 0, FailedLine0), 0, 1, FailedLine1)
    /\ display_count' = ~display_count
    /\ UNCHANGED <<previousTemp, tempEqualCount, ledPwm>>
    /\ last' = [kind |-> "fail", temp |-> 0, directive |-> "None",
                prevBefore |-> previousTemp, countBefore |-> tempEqualCount,
                calls |-> <<"delay", IF display_count THEN "clear" ELSE "message",
                            "delay">>,
                delay |-> LoopDelay + FailDelay, pwm |-> 0]

\* the LCD after the label and the two temperature fields are printed
displayTemperatures(d, r) ==
    LET d1 == lcdPrint(d, 0, 0, TemperatureLabel)
        d2 == lcdPrint(d1, 0, 1,
                 displayFormattedTemperature(IntOfTenths(r.tempC.v), "C"))
    IN lcdPrint(d2, FahrenheitCol, 1,
                 displayFormattedTemperature(IntOfHundredths(r.tempF.v), "F"))

\* variant: the mapped value constrained to the output range
pwmValue_clamped(r) ==
    LET v == map(IntOfTenths(r.tempC.v), MapInMin, MapInMax, MapOutMin, MapOutMax)
    IN IF v < MapOutMin THEN MapOutMin ELSE IF v > MapOutMax THEN MapOutMax ELSE v

\* variant: the intensity mapped from the Fahrenheit reading
pwmValue_fromFahrenheit(r) ==
    map(IntOfHundredths(r.tempF.v), MapInMin, MapInMax, MapOutMin, MapOutMax)

\* int pwmValue = map(int(tempC), -40, 80, 0, 255);
pwmValue(r) == map(IntOfTenths(r.tempC.v), MapInMin, MapInMax, MapOutMin, MapOutMax)

\* variant: a successful cycle restarts the error blink
loopOk_resetsBlink(r) ==
    LET currentTemp == IntOfTenths(r.tempC.v)
        t == handleTemperatureTrend(currentTemp, previousTemp, tempEqualCount,
                                    displayTemperatures(lcd, r))
    IN /\ lcd' = t.lcd
       /\ previousTemp' = t.previousTemp
       /\ tempEqualCount' = t.tempEqualCount
       /\ ledPwm' = pwmValue(r)
       /\ display_count' = FALSE
       /\ last' = [kind |-> "ok", temp |-> currentTemp, directive |-> t.directive,
                   prevBefore |-> previousTemp, countBefore |-> tempEqualCount,
                   calls |-> <<"delay", "display", "handleTemperatureTrend",
                               "analogWrite">>,
                   delay |-> LoopDelay, pwm |-> pwmValue(r)]

\* the normal path of loop()
loopOk(r) ==
    LET currentTemp == IntOfTenths(r.tempC.v)
        t == handleTemperatureTrend(currentTemp, previousTemp, tempEqualCount,
                                    displayTemperatures(lcd, r))
    IN /\ lcd' = t.lcd
       /\ previousTemp' = t.previousTemp
       /\ tempEqualCount' = t.tempEqualCount
       /\ ledPwm' = pwmValue(r)
       /\ UNCHANGED display_count
       /\ last' = [kind |-> "ok", temp |-> currentTemp, directive |-> t.directive,
                   prevBefore |-> previousTemp, countBefore |-> tempEqualCount,
                   calls |-> <<"delay", "display", "handleTemperatureTrend",
                               "analogWrite">>,
                   delay |-> LoopDelay, pwm |-> pwmValue(r)]

loop(r) == IF SensorFailed(r) THEN loopFailed ELSE loopOk(r)

----------------------------------------------------------------------------
(* History variables: steadyRun counts the successful cycles since the     *)
(* temperature last changed; trace lists the successful cycles; failures   *)
(* counts the failed cycles.                                               *)

runAfter == IF last'.kind = "fail" THEN steadyRun
            ELSE IF last'.temp = last'.prevBefore THEN steadyRun + 1
            ELSE 0

traceEntry == [temp |-> last'.temp, directive |-> last'.directive,
               count |-> tempEqualCount', pwm |-> last'.pwm]

traceAfter == IF last'.kind = "fail" THEN trace ELSE Append(trace, traceEntry)

Init ==
    /\ display_count = FALSE
    /\ previousTemp = 0
    /\ tempEqualCount = 0
    /\ lcd = lcdClear
    /\ ledPwm = 0
    /\ last = [kind |-> "none", temp |-> 0, directive |-> "None",
               prevBefore |-> 0, countBefore |-> 0, calls |-> << >>,
               delay |-> 0, pwm |-> 0]
    /\ steadyRun = 0
    /\ trace = << >>
    /\ failures = 0

\* a cycle whose sensor read fails
CycleFailed ==
    /\ \E r \in FailedOutcomes : loop(r)
    /\ steadyRun' = runAfter
    /\ UNCHANGED <<trace, failures>>

\* a cycle whose sensor read succeeds
CycleOk ==
    /\ \E r \in OkOutcomes : loop(r)
    /\ steadyRun' = runAfter
    /\ steadyRun' <= MaxRun
    /\ UNCHANGED <<trace, failures>>

Next == CycleFailed \/ CycleOk

Spec == Init /\ [][Next]_vars

\* the first MaxTrace successful cycles, recorded
TracedFailed ==
    /\ Len(trace) < MaxTrace
    /\ \E r \in FailedOutcomes : loop(r)
    /\ steadyRun' = runAfter
    /\ trace' = traceAfter
    /\ UNCHANGED failures

TracedOk ==
    /\ Len(trace) < MaxTrace
    /\ \E r \in OkOutcomes : loop(r)
    /\ steadyRun' = runAfter
    /\ trace' = traceAfter
    /\ UNCHANGED failures

NextTrace == TracedFailed \/ TracedOk

SpecTrace == Init /\ [][NextTrace]_vars

\* a sweep: the first reading is any whole degree of the wide range and each
\* later reading is one degree above the one before
MappedOk ==
    /\ Len(trace) < MaxMapCycles
    /\ \E r \in WideOutcomes :
          /\ IF trace = << >> THEN TRUE
             ELSE IntOfTenths(r.tempC.v) = trace[Len(trace)].temp + 1
          /\ loop(r)
    /\ steadyRun' = runAfter
    /\ trace' = traceAfter
    /\ UNCHANGED failures

NextMap == MappedOk

SpecMap == Init /\ [][NextMap]_vars

\* failed cycles counted, interleaved with the first MaxBlinkOk successful ones
BlinkFailed ==
    /\ failures < MaxFails
    /\ \E r \in FailedOutcomes : loop(r)
    /\ failures' = failures + 1
    /\ steadyRun' = runAfter
    /\ trace' = traceAfter

BlinkOk ==
    /\ Len(trace) < MaxBlinkOk
    /\ \E r \in OkOutcomes : loop(r)
    /\ steadyRun' = runAfter
    /\ trace' = traceAfter
    /\ UNCHANGED failures

NextBlink == BlinkFailed \/ BlinkOk

SpecBlink == Init /\ [][NextBlink]_vars

\* the loop running for ever: Arduino calls loop() again after every return,
\* so some cycle is always taken; whether a read succeeds is up to the sensor
LiveFailed ==
    /\ \E r \in FailedOutcomes : loop(r)
    /\ UNCHANGED <<steadyRun, trace, failures>>

LiveOk ==
    /\ \E r \in LiveOutcomes : loop(r)
    /\ UNCHANGED <<steadyRun, trace, failures>>

NextLive == LiveFailed \/ LiveOk

SpecLive == Init /\ [][NextLive]_vars /\ WF_vars(NextLive)

----------------------------------------------------------------------------
(* Properties *)

OkCycle == last.kind = "ok"
FailedCycle == last.kind = "fail"
ChangeCycle == OkCycle /\ last.temp # last.prevBefore
SteadyCycle == OkCycle /\ last.temp = last.prevBefore
TrendCell(row) == lcd[<<TrendCol, row>>]

\* C1: after a successful cycle whose integer temperature differs from the
\* previous one, the directive is Down (blank at row 0, down arrow at row 1)
\* when it is lower and Up (blank at row 1, up arrow at row 0) when it is
\* higher, previousTemp is the new value and tempEqualCount is 0.
C1_ChangeEmitsArrowAndResets ==
    ChangeCycle =>
        /\ last.temp < last.prevBefore =>
              /\ last.directive = "Down"
              /\ TrendCell(0) = " " /\ TrendCell(1) = DownGlyph
        /\ last.temp > last.prevBefore =>
              /\ last.directive = "Up"
              /\ TrendCell(1) = " " /\ TrendCell(0) = UpGlyph
        /\ previousTemp = last.temp
        /\ tempEqualCount = 0

C1_Witness ==
    /\ ChangeCycle
    /\ last.directive = "Down"
    /\ last.countBefore > 200
    /\ tempEqualCount = 0

\* C2: on a steady successful cycle the directive is decided by the count c
\* taken after the > 500 wrap: SteadyBlinkOn exactly when 100 < c < 150,
\* SteadyBlinkOff exactly when c > 200, NoChange otherwise (so 100, 150 and
\* 200 give NoChange, 101 and 149 SteadyBlinkOn, 201 SteadyBlinkOff).
C2_SteadyPartition ==
    SteadyCycle =>
        LET c == IF last.countBefore > 500 THEN 0 ELSE last.countBefore
        IN /\ last.directive = "SteadyBlinkOn" <=> (100 < c /\ c < 150)
           /\ last.directive = "SteadyBlinkOff" <=> c > 200
           /\ last.directive = "NoChange" <=> (c <= 100 \/ (150 <= c /\ c <= 200))
           /\ last.directive \in {"SteadyBlinkOn", "SteadyBlinkOff", "NoChange"}
           /\ last.directive = "SteadyBlinkOn" => TrendCell(0) = "="
           /\ last.directive = "SteadyBlinkOff" => TrendCell(0) = " "

C2_Witness ==
    /\ SteadyCycle
    /\ last.countBefore = 150
    /\ last.directive = "NoChange"
    /\ TrendCell(0) = "="

\* C3: a cycle whose sensor read fails leaves previousTemp and tempEqualCount
\* as they were and performs no analogWrite.
C3_FailureLeavesTrendState ==
    [][last'.kind = "fail" =>
          /\ previousTemp' = previousTemp
          /\ tempEqualCount' = tempEqualCount
          /\ ledPwm' = ledPwm
          /\ \A i \in 1 .. Len(last'.calls) : last'.calls[i] # "analogWrite"]_vars

C3_Witness ==
    /\ FailedCycle
    /\ display_count = FALSE
    /\ tempEqualCount > 100
    /\ previousTemp # 0
    /\ tempEqualCount = last.countBefore

\* the directive of the steady cycle that starts with count i, 0 <= i <= 500
SteadyPattern(i) ==
    IF i <= 100 THEN "NoChange"
    ELSE IF i <= 149 THEN "SteadyBlinkOn"
    ELSE IF i <= 200 THEN "NoChange"
    ELSE "SteadyBlinkOff"

\* C4 (amended): holding the temperature from tempEqualCount = 0, the
\* directives are 101 NoChange, 49 SteadyBlinkOn, 51 NoChange, 300
\* SteadyBlinkOff, and this pattern of 501 cycles repeats identically.
C4_SteadyPatternRepeats ==
    SteadyCycle => last.directive = SteadyPattern((steadyRun - 1) % 501)

C4_Witness ==
    /\ SteadyCycle
    /\ steadyRun = 501 + 102
    /\ last.directive = "SteadyBlinkOn"

\* C4 as stated: 100 NoChange, then 49 SteadyBlinkOn, then 50 NoChange, then
\* SteadyBlinkOff (read on the first 250 steady cycles, before any wrap).
C4_Original ==
    SteadyCycle /\ steadyRun <= 250 =>
        last.directive = IF steadyRun <= 100 THEN "NoChange"
                         ELSE IF steadyRun <= 149 THEN "SteadyBlinkOn"
                         ELSE IF steadyRun <= 199 THEN "NoChange"
                         ELSE "SteadyBlinkOff"

\* C5 (amended): the steady cycle that starts with tempEqualCount = 500 ends
\* with 501; the steady cycle that starts with 501 resets it to 0 before the
\* increment and ends with 1.
C5_WrapAfterExceeding ==
    SteadyCycle =>
        /\ last.countBefore = 500 => tempEqualCount = 501
        /\ last.countBefore = 501 => tempEqualCount = 1 /\ last.directive = "NoChange"

C5_Witness ==
    /\ SteadyCycle
    /\ last.countBefore = 501
    /\ tempEqualCount = 1

\* C5 as stated: the steady cycle that starts with 500 ends with 0.
C5_Original ==
    SteadyCycle /\ last.countBefore = 500 => tempEqualCount = 0

\* C6: on a steady successful cycle tempEqualCount becomes
\* (before > 500 ? 0 : before) + 1 whichever glyph branch ran, and
\* previousTemp is unchanged.
C6_SteadyIncrement ==
    SteadyCycle =>
        /\ tempEqualCount = (IF last.countBefore > 500 THEN 0 ELSE last.countBefore) + 1
        /\ previousTemp = last.prevBefore

C6_Witness ==
    /\ SteadyCycle
    /\ last.directive = "SteadyBlinkOff"
    /\ tempEqualCount = last.countBefore + 1
    /\ previousTemp = 20

Increasing(tr) == \A i \in 1 .. Len(tr) - 1 : tr[i].temp < tr[i + 1].temp
Decreasing(tr) == \A i \in 1 .. Len(tr) - 1 : tr[i].temp > tr[i + 1].temp

\* C7 (amended): for a strictly increasing sequence fed from startup, every
\* cycle whose temperature is above the previous one - every cycle when the
\* first is above the startup previousTemp 0, every cycle but the first
\* otherwise - is Up and leaves tempEqualCount 0; a first temperature below 0
\* gives Down and a first temperature 0 gives NoChange with count 1.
C7_IncreasingIsUp ==
    Increasing(trace) =>
        /\ \A i \in 1 .. Len(trace) :
              i > 1 \/ trace[1].temp > 0 =>
                  trace[i].directive = "Up" /\ trace[i].count = 0
        /\ Len(trace) >= 1 /\ trace[1].temp < 0 =>
              trace[1].directive = "Down" /\ trace[1].count = 0
        /\ Len(trace) >= 1 /\ trace[1].temp = 0 =>
              trace[1].directive = "NoChange" /\ trace[1].count = 1

C7_Witness ==
    /\ Len(trace) = 3
    /\ Increasing(trace)
    /\ trace[1].temp = 0
    /\ trace[3].directive = "Up"
    /\ tempEqualCount = 0

\* C7 as stated: every cycle of a strictly increasing sequence is Up with
\* tempEqualCount 0.
C7_Original ==
    Increasing(trace) =>
        \A i \in 1 .. Len(trace) :
            trace[i].directive = "Up" /\ trace[i].count = 0

\* C8 (amended): for a strictly decreasing sequence fed from startup, every
\* cycle whose temperature is below the previous one - every cycle when the
\* first is below 0, every cycle but the first otherwise - is Down; a first
\* temperature above 0 gives Up and a first temperature 0 gives NoChange.
C8_DecreasingIsDown ==
    Decreasing(trace) =>
        /\ \A i \in 1 .. Len(trace) :
              i > 1 \/ trace[1].temp < 0 => trace[i].directive = "Down"
        /\ Len(trace) >= 1 /\ trace[1].temp > 0 => trace[1].directive = "Up"
        /\ Len(trace) >= 1 /\ trace[1].temp = 0 => trace[1].directive = "NoChange"

C8_Witness ==
    /\ Len(trace) = 3
    /\ Decreasing(trace)
    /\ trace[1].temp > 0
    /\ trace[3].directive = "Down"
    /\ trace[3].temp < 0

\* C8 as stated: every cycle of a strictly decreasing sequence is Down.
C8_Original ==
    Decreasing(trace) =>
        \A i \in 1 .. Len(trace) : trace[i].directive = "Down"

ScenarioFed ==
    /\ Len(trace) >= 5
    /\ [i \in 1 .. 5 |-> trace[i].temp] = <<20, 20, 21, 21, 20>>

\* C9 (amended): feeding 20, 20, 21, 21, 20 from startup gives Up, NoChange,
\* Up, NoChange, Down, with tempEqualCount 0, 1, 0, 1, 0 after the cycles.
C9_Scenario ==
    ScenarioFed =>
        /\ [i \in 1 .. 5 |-> trace[i].directive]
              = <<"Up", "NoChange", "Up", "NoChange", "Down">>
        /\ [i \in 1 .. 5 |-> trace[i].count] = <<0, 1, 0, 1, 0>>

C9_Witness == ScenarioFed /\ Len(trace) = 5 /\ previousTemp = 20

\* C9 as stated: the directives are NoChange, NoChange, Up, NoChange, Down.
C9_Original ==
    ScenarioFed =>
        [i \in 1 .. 5 |-> trace[i].directive]
            = <<"NoChange", "NoChange", "Up", "NoChange", "Down">>

InDomain(t) == MapInMin <= t /\ t <= MapInMax

\* C10: for every integer tempC in [-40, 80] the value written to the LED is
\* (tempC + 40) * 255 / 120 truncated, lies in [0, 255] and is non-decreasing
\* in tempC; it is 0 for -40, 255 for 80 and 127 for 20.
C10_IntensityInDomain ==
    /\ \A i \in 1 .. Len(trace) :
          LET t == trace[i].temp
              v == trace[i].pwm
          IN InDomain(t) =>
                /\ 120 * v <= (t + 40) * 255
                /\ (t + 40) * 255 < 120 * (v + 1)
                /\ 0 <= v /\ v <= 255
                /\ t = -40 => v = 0
                /\ t = 80 => v = 255
                /\ t = 20 => v = 127
                /\ \A j \in i + 1 .. Len(trace) :
                      InDomain(trace[j].temp) => v <= trace[j].pwm
    /\ Len(trace) >= 1 => ledPwm = trace[Len(trace)].pwm

C10_Witness ==
    /\ Len(trace) >= 2
    /\ trace[1].temp = 19
    /\ trace[2].temp = 20
    /\ ledPwm = 127

\* C11: the mapping does not clamp: for an integer tempC below -40 the value
\* passed to analogWrite is negative, for one above 80 it is greater than
\* 255, and the value written is the mapped value itself.
C11_NoClamp ==
    /\ \A i \in 1 .. Len(trace) :
          /\ trace[i].temp < MapInMin => trace[i].pwm < MapOutMin
          /\ trace[i].temp > MapInMax => trace[i].pwm > MapOutMax
    /\ Len(trace) >= 1 /\ ~InDomain(trace[Len(trace)].temp) =>
          /\ ledPwm = trace[Len(trace)].pwm
          /\ ledPwm < MapOutMin \/ ledPwm > MapOutMax

C11_Witness ==
    /\ Len(trace) = 2
    /\ trace[1].temp = MapInMax + 1
    /\ trace[1].pwm = 257
    /\ trace[2].temp = MapInMax + 2
    /\ ledPwm = 259

MessageShown ==
    /\ \A c \in 0 .. Len(FailedLine0) - 1 : lcd[<<c, 0>>] = FailedLine0[c + 1]
    /\ \A c \in 0 .. Len(FailedLine1) - 1 : lcd[<<c, 1>>] = FailedLine1[c + 1]

\* C12: failed cycles alternate strictly: the 1st, 3rd, 5th ... failed cycle
\* shows the two-line message and the 2nd, 4th, 6th ... clears the screen;
\* successful cycles in between neither reset nor advance the alternation.
C12_FailureBlinkAlternates ==
    /\ display_count <=> failures % 2 = 1
    /\ FailedCycle /\ failures % 2 = 1 => MessageShown
    /\ FailedCycle /\ failures % 2 = 0 => lcd = lcdClear

C12_Witness ==
    /\ FailedCycle
    /\ failures = 3
    /\ MessageShown
    /\ TrendCell(0) = UpGlyph
    /\ Len(trace) >= 2

\* C13: in an infinite run with infinitely many successful cycles in which
\* the integer temperature eventually stops changing, the equal glyph is
\* drawn infinitely often and blanked infinitely often, whatever failed
\* cycles are interleaved.
C13_SteadyBlinkForever ==
    ([]<><<LiveOk>>_vars /\ <>[][last'.kind = "ok" => last'.temp = last'.prevBefore]_vars)
        => /\ []<>(SteadyCycle /\ last.directive = "SteadyBlinkOn" /\ TrendCell(0) = "=")
           /\ []<>(SteadyCycle /\ last.directive = "SteadyBlinkOff" /\ TrendCell(0) = " ")

C13_Witness ==
    /\ SteadyCycle
    /\ last.directive = "SteadyBlinkOn"
    /\ last.countBefore = 101
    /\ display_count
    /\ steadyRun = 0

CallCount(name) == Cardinality({i \in 1 .. Len(last.calls) : last.calls[i] = name})

\* C14: a successful cycle makes exactly one trend update and then exactly
\* one analogWrite, whose value is mapped from the integer Celsius
\* temperature the trend update received; a failed cycle makes neither.
C14_TrendThenActuation ==
    /\ OkCycle =>
          /\ CallCount("handleTemperatureTrend") = 1
          /\ CallCount("analogWrite") = 1
          /\ \A i, j \in 1 .. Len(last.calls) :
                last.calls[i] = "handleTemperatureTrend" /\ last.calls[j] = "analogWrite"
                    => i < j
          /\ previousTemp = last.temp
          /\ ledPwm = last.pwm
          /\ 120 * ledPwm <= (last.temp + 40) * 255
          /\ (last.temp + 40) * 255 < 120 * (ledPwm + 1)
    /\ FailedCycle =>
          /\ CallCount("handleTemperatureTrend") = 0
          /\ CallCount("analogWrite") = 0

C14_Witness ==
    /\ OkCycle
    /\ last.temp = 21
    /\ last.prevBefore = -2
    /\ previousTemp = 21
    /\ ledPwm = 129

\* C15 (amended): a successful cycle suspends once, for the 100 ms delay at
\* the top of loop(); a failed cycle suspends twice, for that delay and for a
\* further 200 ms delay before it returns, 300 ms in all.
C15_DelaysPerCycle ==
    /\ OkCycle =>
          /\ CallCount("delay") = 1
          /\ last.calls[1] = "delay"
          /\ last.delay = 100
    /\ FailedCycle =>
          /\ CallCount("delay") = 2
          /\ last.calls[1] = "delay"
          /\ last.calls[Len(last.calls)] = "delay"
          /\ last.delay = 300

C15_Witness ==
    /\ FailedCycle
    /\ last.delay = 300
    /\ display_count
    /\ tempEqualCount = 7

\* C15 as stated: every cycle, successful or failed, suspends exactly once,
\* for the same fixed delay.
C15_Original ==
    last.kind # "none" => CallCount("delay") = 1 /\ last.delay = LoopDelay

\* C16: tempEqualCount cannot grow without bound: in every reachable state
\* 0 <= tempEqualCount <= 501.
C16_CountBounded == 0 <= tempEqualCount /\ tempEqualCount <= 501

C16_Witness ==
    /\ tempEqualCount = 501
    /\ FailedCycle
    /\ last.countBefore = 501

GlyphShown == TrendCell(0) \in {UpGlyph, "="} \/ TrendCell(1) = DownGlyph

\* C17: a NoChange cycle writes neither cell of the trend column, so the
\* glyph left by the previous directive stays displayed unchanged until the
\* next Up, Down, SteadyBlinkOn or SteadyBlinkOff: while a glyph is shown, a
\* cycle that emits none of these directives leaves both cells as they were.
C17_Original ==
    [][GlyphShown
         /\ last'.directive \notin {"Up", "Down", "SteadyBlinkOn", "SteadyBlinkOff"}
         => lcd'[<<TrendCol, 0>>] = lcd[<<TrendCol, 0>>]
            /\ lcd'[<<TrendCol, 1>>] = lcd[<<TrendCol, 1>>]]_vars

\* C18: after a successful cycle previousTemp is the integer temperature of
\* that cycle, and in every later state it is still the integer temperature
\* of the most recent successful cycle, failed cycles notwithstanding.
C18_PreviousIsLatestReading ==
    /\ OkCycle => previousTemp = last.temp
    /\ Len(trace) >= 1 => previousTemp = trace[Len(trace)].temp

C18_Witness ==
    /\ FailedCycle
    /\ Len(trace) = 3
    /\ trace[2].temp = 21
    /\ trace[3].temp = -1
    /\ previousTemp = -1

\* the width of a formatted temperature field (sign, digits, degree, unit)
FieldWidth == 5

\* C19: after a successful cycle no cell holds a character of the failure
\* message: the display shows only the Temperature label, the two formatted
\* temperature fields and the trend glyph, and is blank elsewhere.
C19_Original ==
    OkCycle =>
        \A p \in Cells :
            IF p[1] = TrendCol
            THEN lcd[p] \in {" ", UpGlyph, DownGlyph, "="}
            ELSE IF p[2] = 0 /\ p[1] < Len(TemperatureLabel)
            THEN lcd[p] = TemperatureLabel[p[1] + 1]
            ELSE IF p[2] = 1 /\ (p[1] < FieldWidth
                                  \/ (FahrenheitCol <= p[1]
                                      /\ p[1] < FahrenheitCol + FieldWidth))
            THEN lcd[p] \notin {"D", "H", "T", "f", "r", "o", "m", "s", "e", "n", "!"}
            ELSE lcd[p] = " "

\* C20: the up and the down arrow are never displayed together; the up arrow
\* and the equal sign appear only at (14, 0), the down arrow only at (14, 1),
\* and a trend write that draws a glyph in one of the two cells blanks the
\* other.
C20_TrendGlyphPlacement ==
    /\ ~(TrendCell(0) = UpGlyph /\ TrendCell(1) = DownGlyph)
    /\ \A p \in Cells :
          /\ lcd[p] \in {UpGlyph, "="} => p = <<TrendCol, 0>>
          /\ lcd[p] = DownGlyph => p = <<TrendCol, 1>>
    /\ OkCycle /\ last.directive = "Up" =>
          TrendCell(0) = UpGlyph /\ TrendCell(1) = " "
    /\ OkCycle /\ last.directive = "SteadyBlinkOn" =>
          TrendCell(0) = "=" /\ TrendCell(1) = " "
    /\ OkCycle /\ last.directive = "Down" =>
          TrendCell(1) = DownGlyph /\ TrendCell(0) = " "

C20_Witness ==
    /\ OkCycle
    /\ last.directive = "Up"
    /\ last.prevBefore = -2
    /\ last.temp = -1
    /\ TrendCell(0) = UpGlyph
    /\ TrendCell(1) = " "
    /\ display_count

====
